---- MODULE Spec2Model ----
(***************************************************************************)
(* Model of the FluidSim particle engine (src/src/FluidSimulation.js) and  *)
(* of the frame loop that drives it (src/src/main.js).                     *)
(*                                                                         *)
(* Numbers.  The program computes in floating point; the model computes in *)
(* fixed point, every result truncated toward zero:                        *)
(*   lengths and positions          in mm        (1 m      = 1000)         *)
(*   velocities and impulses        in cm/s      (1 m/s    = 100)          *)
(*   accelerations                  in cm/s^2    (1 m/s^2  = 100)          *)
(*   damping, friction              in percent   (1.0      = 100)          *)
(*   viscosity, surfaceTension      in tenths    (1.0      = 10)           *)
(*   densities                      in 1/1000,  pressures in 1/100         *)
(*   wall-clock time (Date.now)     in ms                                  *)
(* A vector is a triple <<x, y, z>>.  Array indices are 1-based here and   *)
(* 0-based in the program.                                                 *)
(***************************************************************************)
EXTENDS Integers, Sequences, FiniteSets, TLC

(***************************************************************************)
(* Bounds of the model.                                                    *)
(***************************************************************************)
\* the block of initSimulation is width x height x depth particles
\* (10 x 10 x 10 in the program); the model uses a short row of particles
width == 2
height == width \div 2
depth == width \div 2
\* frames (calls of App.animate) in one behaviour
MaxFrames == 2
\* tasks of the event loop other than frames (slider input, clicks, mouse
\* events, timer callbacks) in one behaviour
MaxEvents == 3

BlockCapacity == width * height * depth
\* the particleCount slider runs from 100 to 5000, that is from a tenth of
\* the block to well above the block; the model keeps its two ends, one
\* below and one above the block capacity
MinParticleCount == IF BlockCapacity < 20 THEN 1 ELSE BlockCapacity \div 10
MaxParticleCount == BlockCapacity + 2
ParticleCountValues == {MinParticleCount, MaxParticleCount}

(***************************************************************************)
(* Program constants (constructor defaults and literals).                  *)
(***************************************************************************)
gravityDefault == 981
dampingDefault == 80
collisionThresholdDefault == 100
smoothingLength == 400
restDensity == 100000
gasConstant == 100
viscosityDefault == 5
surfaceTensionDefault == 2
timeStep == 16
subSteps == 2
maxVelocity == 500
interactionRadius == 1000
interactionForce == 1000
sourceRate == 10
waveAmplitude == 50
whirlpoolStrength == 200
boxMin == -5000
boxMax == 5000
spacing == 200
blockBaseY == 3000
obstacleRadius == 500
userSourceRate == 10
friction == 98
planLimit == 10000
\* mass * W_poly6(0, h) = 0.1 * 315 / (64 pi h^3) for h = 0.4, in 1/1000
poly6Self == 2448

(***************************************************************************)
(* Fixed-point arithmetic and vectors.                                     *)
(***************************************************************************)
Abs(n) == IF n < 0 THEN -n ELSE n
Sign(n) == IF n < 0 THEN -1 ELSE IF n > 0 THEN 1 ELSE 0
Min(a, b) == IF a < b THEN a ELSE b
Max(a, b) == IF a > b THEN a ELSE b
\* n / d truncated toward zero (d > 0)
Trunc(n, d) == Sign(n) * (Abs(n) \div d)

RECURSIVE ISqrtBS(_, _, _)
ISqrtBS(n, lo, hi) ==
    IF lo >= hi THEN lo
    ELSE LET mid == (lo + hi + 1) \div 2
         IN IF mid * mid <= n THEN ISqrtBS(n, mid, hi) ELSE ISqrtBS(n, lo, mid - 1)
\* floor of the square root
ISqrt(n) == ISqrtBS(n, 0, IF n < 46340 THEN n ELSE 46340)

\* p1/q1 <= p2/q2 for naturals with q1, q2 > 0, without forming products
RECURSIVE FracLE(_, _, _, _)
FracLE(p1, q1, p2, q2) ==
    LET i1 == p1 \div q1
        i2 == p2 \div q2
        r1 == p1 % q1
        r2 == p2 % q2
    IN IF i1 < i2 THEN TRUE
       ELSE IF i1 > i2 THEN FALSE
       ELSE IF r1 = 0 THEN TRUE
       ELSE IF r2 = 0 THEN FALSE
       ELSE FracLE(q2, r2, q1, r1)
\* a * b <= c * d for naturals, without forming the products
ProdLE(a, b, c, d) ==
    IF a = 0 \/ b = 0 THEN TRUE
    ELSE IF c = 0 \/ d = 0 THEN FALSE
    ELSE FracLE(a, c, d, b)

Zero3 == <<0, 0, 0>>
VAdd(a, b) == <<a[1] + b[1], a[2] + b[2], a[3] + b[3]>>
VSub(a, b) == <<a[1] - b[1], a[2] - b[2], a[3] - b[3]>>
VNeg(a) == <<-a[1], -a[2], -a[3]>>
Dot(a, b) == a[1] * b[1] + a[2] * b[2] + a[3] * b[3]
\* v * n / d, each component truncated toward zero
VMulDiv(v, n, d) == <<Trunc(v[1] * n, d), Trunc(v[2] * n, d), Trunc(v[3] * n, d)>>
\* squared length
Len2(v) == Dot(v, v)
\* length (THREE.Vector3.length), floor of the square root
Length(v) == ISqrt(Len2(v))
\* |v| < r, decided on the squares; the component test keeps the squares small
WithinRadius(v, r) ==
    /\ Abs(v[1]) < r /\ Abs(v[2]) < r /\ Abs(v[3]) < r
    /\ Len2(v) < r * r

\* c * L / sqrt(s2) truncated toward zero, where |c| <= sqrt(s2): the largest
\* k with k^2 * s2 <= c^2 * L^2
ScaleComp(c, L, s2) ==
    IF s2 = 0 THEN 0
    ELSE LET a == Abs(c)
             S == ISqrt(s2)
             lo == (a * L) \div (S + 1)
             hi == (a * L) \div S
             k == CHOOSE x \in lo..hi :
                      /\ ProdLE(x * x, s2, a * a, L * L)
                      /\ \A y \in (x + 1)..hi : ~ProdLE(y * y, s2, a * a, L * L)
         IN Sign(c) * k
\* v * (L / |v|): the vector of length L in the direction of v; the zero
\* vector stays zero (THREE.Vector3.normalize divides by length() || 1)
ScaleToLength(v, L) ==
    LET s2 == Len2(v)
    IN <<ScaleComp(v[1], L, s2), ScaleComp(v[2], L, s2), ScaleComp(v[3], L, s2)>>

\* x * subDt with subDt = timeStep / subSteps ms, for a quantity per second
MulSubDt(x) == Trunc(x * timeStep, subSteps * 1000)
VMulSubDt(v) == <<MulSubDt(v[1]), MulSubDt(v[2]), MulSubDt(v[3])>>
\* displacement in mm of a velocity in cm/s over subDt
Displacement(v) ==
    <<Trunc(v[1] * timeStep * 10, subSteps * 1000),
      Trunc(v[2] * timeStep * 10, subSteps * 1000),
      Trunc(v[3] * timeStep * 10, subSteps * 1000)>>

\* the array with the elements f[1], ..., f[n], each evaluated once
Array(f) == <<>> \o f

(***************************************************************************)
(* State.                                                                  *)
(***************************************************************************)
VARIABLES
    params,            \* this.params (the fields the engine reads and the UI writes)
    particles,         \* this.particles: positions
    velocities,        \* this.velocities
    accelerations,     \* this.accelerations
    densities,         \* this.densities
    pressures,         \* this.pressures
    neighbors,         \* this.neighbors: per particle, the list of neighbor indices
    sources,           \* this.sources: user-added sources
    scenarioSources,   \* this.scenarioSources
    obstacles,         \* this.obstacles
    positions,         \* mesh.geometry.attributes.position.array, one vector per 3 floats
    currentScenario,   \* this.currentScenario
    currentTool,       \* this.currentTool
    isInteracting,     \* this.isInteracting
    timers,            \* interval timers registered with setInterval, in order
    rafQueue,          \* callbacks registered with requestAnimationFrame, in order
    inFrame,           \* TRUE while the callbacks of the current frame are being run
    now,               \* Date.now()
    last,              \* history: the operation that ran last and its outcome
    trace,             \* history: what the sub-steps of the last update() did
    frames,            \* history: number of frames so far
    events,            \* history: number of events and timer callbacks so far
    watch              \* history: the one source under observation, or <<>>

simVars == <<params, particles, velocities, accelerations, densities, pressures,
             neighbors, sources, scenarioSources, obstacles, positions,
             currentScenario, timers>>
vars == <<params, particles, velocities, accelerations, densities, pressures,
          neighbors, sources, scenarioSources, obstacles, positions,
          currentScenario, currentTool, isInteracting, timers, rafQueue,
          inFrame, now, last, trace, frames, events, watch>>

\* the FluidSimulation object as a record; threw is set when an operation
\* raised an exception, and what follows the raising statement is skipped
Cur ==
    [params |-> params, particles |-> particles, velocities |-> velocities,
     accelerations |-> accelerations, densities |-> densities,
     pressures |-> pressures, neighbors |-> neighbors, sources |-> sources,
     scenarioSources |-> scenarioSources, obstacles |-> obstacles,
     positions |-> positions, currentScenario |-> currentScenario,
     timers |-> timers, threw |-> FALSE]

\* the object after an operation
Becomes(s) ==
    /\ params' = s.params
    /\ particles' = s.particles
    /\ velocities' = s.velocities
    /\ accelerations' = s.accelerations
    /\ densities' = s.densities
    /\ pressures' = s.pressures
    /\ neighbors' = s.neighbors
    /\ sources' = s.sources
    /\ scenarioSources' = s.scenarioSources
    /\ obstacles' = s.obstacles
    /\ positions' = s.positions
    /\ currentScenario' = s.currentScenario
    /\ timers' = s.timers

(***************************************************************************)
(* Inputs.                                                                 *)
(***************************************************************************)
\* outcomes of the three Math.random() draws of a position jitter,
\* (Math.random() - 0.5) * 0.1 per axis
JitterSet == {<<30, 20, -40>>}
\* world points where the ray of a mousedown hits the interaction plane
ClickPoints == {<<4800, 0, 0>>}
\* world points where the ray of a mousemove hits the interaction plane
DragPoints == {<<0, 0, 0>>}
\* outcomes of Math.random() < 0.1 and the two draws (Math.random() - 0.5) * 0.05
\* in handleGridCollision: <<>> for no perturbation
PerturbationSet == {<<>>, <<2, -2>>}
\* outcomes <<x, z>> of the draws (Math.random() - 0.5) * 8 in setupRain
RainSpots == {<<1000, -3000>>}
\* values of sin(..) * cos(..) in the wave callback, in 1/1000
WaveValues == {1000}
\* time between two frames, in ms
FrameGaps == {16}
\* Date.now() at construction
Epoch == 1000
\* values that the sliders deliver
ParamInputs == {<<"particleCount", v>> : v \in ParticleCountValues}
\* the data-tool values of the tool buttons
ToolNames == {"orbit", "interact", "rotate-plane", "add-force", "add-obstacle", "source"}
\* the tool buttons that the user clicks
ToolInputs == {"add-obstacle", "source"}
\* the data-scenario values of the scenario buttons
ScenarioNames == {"default", "waterfall", "lake", "waves", "fountain", "rain", "whirlpool"}
\* the scenario buttons that the user clicks
ScenarioInputs == {"default", "waterfall", "lake"}

(***************************************************************************)
(* Construction, reset and the mesh buffer.                                *)
(***************************************************************************)
\* position of the k-th particle (k from 0) of the block, before the jitter:
\* the loops run x outermost, z innermost
BlockPosition(k) ==
    LET x == k \div (height * depth)
        y == (k \div depth) % height
        z == k % depth
    IN <<Trunc((2 * x - width) * spacing, 2),
         blockBaseY + y * spacing,
         Trunc((2 * z - depth) * spacing, 2)>>

\* initSimulation without the six assignments of empty arrays: it appends to
\* what the caller left
initSimulationKeeping(s, jitter) ==
    LET n == Max(0, Min(s.params.particleCount, BlockCapacity) - Len(s.particles))
    IN [s EXCEPT
          !.particles = @ \o Array([k \in 1..n |-> VAdd(BlockPosition(k - 1), jitter)]),
          !.velocities = @ \o Array([k \in 1..n |-> Zero3]),
          !.accelerations = @ \o Array([k \in 1..n |-> <<0, -s.params.gravity, 0>>]),
          !.densities = @ \o Array([k \in 1..n |-> 0]),
          !.pressures = @ \o Array([k \in 1..n |-> 0]),
          !.neighbors = @ \o Array([k \in 1..n |-> <<>>])]

initSimulation(s, jitter) ==
    LET n == Min(s.params.particleCount, BlockCapacity)
    IN [s EXCEPT
          !.particles = Array([k \in 1..n |-> VAdd(BlockPosition(k - 1), jitter)]),
          !.velocities = Array([k \in 1..n |-> Zero3]),
          !.accelerations = Array([k \in 1..n |-> <<0, -s.params.gravity, 0>>]),
          !.densities = Array([k \in 1..n |-> 0]),
          !.pressures = Array([k \in 1..n |-> 0]),
          !.neighbors = Array([k \in 1..n |-> <<>>])]

\* reads particles[i] for every i < particleCount: a TypeError when there are
\* fewer particles, raised before the new buffer is installed
updateGeometry(s) ==
    IF Len(s.particles) < s.params.particleCount
    THEN [s EXCEPT !.threw = TRUE]
    ELSE [s EXCEPT !.positions = SubSeq(s.particles, 1, s.params.particleCount)]

resetSimulation(s, jitter) ==
    updateGeometry(initSimulation([s EXCEPT !.particles = <<>>, !.velocities = <<>>], jitter))

\* addObstacle(position): a second argument, as the scenarios pass, is ignored
addObstacle(s, position) ==
    [s EXCEPT !.obstacles = Append(@, [position |-> position, radius |-> obstacleRadius])]

addSource(s, position) ==
    [s EXCEPT !.sources = Append(@, [position |-> position, rate |-> userSourceRate,
                                     lastSpawn |-> 0, velocity |-> <<>>])]

(***************************************************************************)
(* Sources.                                                                *)
(***************************************************************************)
\* addParticleWithVelocity with the capacity test written as <=
addParticleWithVelocityUnguarded(s, position, velocity) ==
    IF Len(s.particles) <= s.params.particleCount
    THEN updateGeometry(
           [s EXCEPT !.particles = Append(@, position),
                     !.velocities = Append(@, velocity),
                     !.accelerations = Append(@, <<0, -s.params.gravity, 0>>),
                     !.densities = Append(@, 0),
                     !.pressures = Append(@, 0),
                     !.neighbors = Append(@, <<>>)])
    ELSE s

addParticleWithVelocity(s, position, velocity) ==
    IF Len(s.particles) < s.params.particleCount
    THEN updateGeometry(
           [s EXCEPT !.particles = Append(@, position),
                     !.velocities = Append(@, velocity),
                     !.accelerations = Append(@, <<0, -s.params.gravity, 0>>),
                     !.densities = Append(@, 0),
                     !.pressures = Append(@, 0),
                     !.neighbors = Append(@, <<>>)])
    ELSE s

\* a source is due when now - lastSpawn > 1000 / rate
SourceDue(source, t) == (t - source.lastSpawn) * source.rate > 1000

\* the forEach of updateSources over allSources, from index k on; all is the
\* list of the source objects, which the two pools share with it
RECURSIVE SpawnFrom(_, _, _, _, _)
SpawnFrom(s, all, k, t, jitter) ==
    IF k > Len(all) THEN [sim |-> s, all |-> all]
    ELSE IF SourceDue(all[k], t)
    THEN LET position == VAdd(all[k].position, jitter)
             velocity == IF all[k].velocity = <<>> THEN Zero3 ELSE all[k].velocity
             s1 == addParticleWithVelocity(s, position, velocity)
         IN IF s1.threw THEN [sim |-> s1, all |-> all]
            ELSE SpawnFrom(s1, [all EXCEPT ![k].lastSpawn = t], k + 1, t, jitter)
    ELSE SpawnFrom(s, all, k + 1, t, jitter)

updateSources(s, t, jitter) ==
    LET r == SpawnFrom(s, s.sources \o s.scenarioSources, 1, t, jitter)
        n == Len(s.sources)
    IN [r.sim EXCEPT !.sources = SubSeq(r.all, 1, n),
                     !.scenarioSources = SubSeq(r.all, n + 1, Len(r.all))]

(***************************************************************************)
(* Neighbor search.                                                        *)
(***************************************************************************)
\* Math.floor(coordinate / cellSize), per axis
CellOf(pos, cellSize) ==
    <<pos[1] \div cellSize, pos[2] \div cellSize, pos[3] \div cellSize>>

\* the key string `${floor(x*p1)}|${floor(y*p2)}|${floor(z*p3)}` as the triple
\* of its three numbers
getHashKey(x, y, z) == <<x * 73856093, y * 19349663, z * 83492791>>

\* the key under which updateSpatialHash files a particle at pos
KeyOf(pos) ==
    LET c == CellOf(pos, smoothingLength) IN getHashKey(c[1], c[2], c[3])

\* the cell offsets of a scan that starts each loop at 0 instead of -1
CellOffsetForward(k) ==
    <<Max(0, ((k - 1) \div 9) - 1), Max(0, (((k - 1) \div 3) % 3) - 1),
      Max(0, ((k - 1) % 3) - 1)>>

\* the 27 cell offsets in the order of the loops over dx, dy, dz
CellOffset(k) == <<((k - 1) \div 9) - 1, (((k - 1) \div 3) % 3) - 1, ((k - 1) % 3) - 1>>

\* what the scan of the k-th to the 27th cell around particle i appends to
\* neighbors[i]: near lists the indices j # i at distance < h in increasing
\* order, which is the order of every bucket, and the bucket looked up for a
\* cell holds the indices whose key is the key of that cell
RECURSIVE NeighborsFrom(_, _, _, _)
NeighborsFrom(ps, i, near, k) ==
    IF k > 27 THEN <<>>
    ELSE LET c == VAdd(CellOf(ps[i], smoothingLength), CellOffset(k))
             key == getHashKey(c[1], c[2], c[3])
         IN SelectSeq(near, LAMBDA j : KeyOf(ps[j]) = key)
                \o NeighborsFrom(ps, i, near, k + 1)

\* the scan without the tests i !== j and r < h
NeighborsOfUnfiltered(ps, i) ==
    NeighborsFrom(ps, i, Array([j \in 1..Len(ps) |-> j]), 1)

NeighborsOf(ps, i) ==
    LET near == SelectSeq(Array([j \in 1..Len(ps) |-> j]), LAMBDA j :
                    i # j /\ WithinRadius(VSub(ps[i], ps[j]), smoothingLength))
    IN IF near = <<>> THEN <<>> ELSE NeighborsFrom(ps, i, near, 1)

findNeighbors(s) ==
    [s EXCEPT !.neighbors =
        Array([i \in 1..Len(s.neighbors) |->
            IF i <= Len(s.particles) THEN NeighborsOf(s.particles, i) ELSE @[i]])]

(***************************************************************************)
(* Density, pressure and forces.                                           *)
(***************************************************************************)
\* mass * poly6.W(r, h) for the squared distance r2, in 1/1000
Poly6Mass(r2) ==
    LET h2 == smoothingLength * smoothingLength
    IN IF r2 > h2 THEN 0
       ELSE LET q == ((h2 - r2) * 1000) \div h2
            IN (poly6Self * ((q * q * q) \div 1000000)) \div 1000

RECURSIVE SumDensity(_, _, _, _)
SumDensity(ps, i, nb, k) ==
    IF k > Len(nb) THEN 0
    ELSE Poly6Mass(Len2(VSub(ps[i], ps[nb[k]]))) + SumDensity(ps, i, nb, k + 1)

\* x^7 for x in 1/10000
Pow7(x) ==
    LET m(a, b) == (a * b) \div 10000
        x2 == m(x, x)
        x4 == m(x2, x2)
    IN m(m(x4, x2), x)

computeDensityPressure(s) ==
    LET n == Len(s.particles)
        density(i) == poly6Self + SumDensity(s.particles, i, s.neighbors[i], 1)
    IN [s EXCEPT
          !.densities = Array([i \in 1..Len(s.densities) |->
                            IF i <= n THEN density(i) ELSE @[i]]),
          !.pressures = Array([i \in 1..Len(s.pressures) |->
                            IF i <= n
                            THEN Trunc(gasConstant *
                                       (Pow7((density(i) * 10000) \div restDensity) - 10000), 100)
                            ELSE @[i]])]

\* the acceleration that neighbor j adds to particle i
PairForce(s, i, j) ==
    LET r == VSub(s.particles[i], s.particles[j])
        dist == Length(r)
        density_j == Max(s.densities[j], 100)
        sl == ((smoothingLength - dist) * 1000) \div smoothingLength
        sl2 == (sl * sl) \div 1000
        \* -mass * (p_i + p_j) / (2 * density_j) * ((h - dist) / h)^2 * 3.0, in cm/s^2
        pm == Trunc(Trunc(-150 * (s.pressures[i] + s.pressures[j]), density_j) * sl2, 1000)
        pressureForce == VMulDiv(ScaleToLength(r, Abs(pm)), Sign(pm), 1)
        velDiff == VSub(s.velocities[j], s.velocities[i])
        viscosityForce ==
            <<Trunc(velDiff[1] * s.params.viscosity * (smoothingLength - dist), 100 * density_j),
              Trunc(velDiff[2] * s.params.viscosity * (smoothingLength - dist), 100 * density_j),
              Trunc(velDiff[3] * s.params.viscosity * (smoothingLength - dist), 100 * density_j)>>
        cm == Trunc(s.params.surfaceTension * sl2, 1000)
        cohesionForce ==
            IF Len2(r) * 100 < 81 * smoothingLength * smoothingLength
            THEN VNeg(ScaleToLength(r, cm))
            ELSE Zero3
    IN IF Len2(r) = 0 THEN Zero3
       ELSE VAdd(VAdd(pressureForce, viscosityForce), cohesionForce)

RECURSIVE SumForces(_, _, _, _)
SumForces(s, i, nb, k) ==
    IF k > Len(nb) THEN Zero3
    ELSE VAdd(PairForce(s, i, nb[k]), SumForces(s, i, nb, k + 1))

computeForces(s) ==
    [s EXCEPT !.accelerations =
        Array([i \in 1..Len(s.accelerations) |->
            IF i <= Len(s.particles)
            THEN VAdd(<<0, -s.params.gravity, 0>>, SumForces(s, i, s.neighbors[i], 1))
            ELSE @[i]])]

(***************************************************************************)
(* Collisions.  Each handler maps a particle [p |-> position, v |->        *)
(* velocity] to the particle after the handler.                            *)
(***************************************************************************)
Damped(x, damping) == Trunc(x * damping, 100)

\* one axis of handleBoundaryCollisions
BoundaryAxis(pt, axis, damping) ==
    IF pt.p[axis] < boxMin
    THEN [p |-> [pt.p EXCEPT ![axis] = boxMin],
          v |-> [pt.v EXCEPT ![axis] = Damped(Abs(@), damping)]]
    ELSE IF pt.p[axis] > boxMax
    THEN [p |-> [pt.p EXCEPT ![axis] = boxMax],
          v |-> [pt.v EXCEPT ![axis] = -Damped(Abs(@), damping)]]
    ELSE pt

handleBoundaryCollisions(pt, prm) ==
    BoundaryAxis(BoundaryAxis(BoundaryAxis(pt, 1, prm.damping), 2, prm.damping), 3, prm.damping)

\* one horizontal axis of the plane limits of handleGridCollision
PlanLimitAxis(pt, axis, damping) ==
    IF Abs(pt.p[axis]) > planLimit
    THEN [p |-> [pt.p EXCEPT ![axis] = Sign(@) * planLimit],
          v |-> [pt.v EXCEPT ![axis] = Damped(-@, damping)]]
    ELSE pt

\* handleGridCollision without the test velocity.y < 0
handleGridCollisionAnyDirection(pt, prm, perturbation) ==
    LET hit == Abs(pt.p[2]) < prm.collisionThreshold
        vx == Trunc(pt.v[1] * friction, 100)
        vz == Trunc(pt.v[3] * friction, 100)
        onPlane ==
            IF hit
            THEN [p |-> [pt.p EXCEPT ![2] = 0],
                  v |-> <<IF perturbation = <<>> THEN vx ELSE vx + perturbation[1],
                          Damped(Abs(pt.v[2]), prm.damping),
                          IF perturbation = <<>> THEN vz ELSE vz + perturbation[2]>>]
            ELSE pt
    IN PlanLimitAxis(PlanLimitAxis(onPlane, 1, prm.damping), 3, prm.damping)

\* perturbation is <<>> when Math.random() < 0.1 fails, and else the pair of
\* the two draws (Math.random() - 0.5) * 0.05
handleGridCollision(pt, prm, perturbation) ==
    LET hit == Abs(pt.p[2]) < prm.collisionThreshold /\ pt.v[2] < 0
        vx == Trunc(pt.v[1] * friction, 100)
        vz == Trunc(pt.v[3] * friction, 100)
        onPlane ==
            IF hit
            THEN [p |-> [pt.p EXCEPT ![2] = 0],
                  v |-> <<IF perturbation = <<>> THEN vx ELSE vx + perturbation[1],
                          Damped(Abs(pt.v[2]), prm.damping),
                          IF perturbation = <<>> THEN vz ELSE vz + perturbation[2]>>]
            ELSE pt
    IN PlanLimitAxis(PlanLimitAxis(onPlane, 1, prm.damping), 3, prm.damping)

\* velocity.clone().reflect(normal) for a normal given in mm:
\* v - 2 (v . n) n with the components of n read in metres
Reflect(v, normal) ==
    LET d == 2 * Dot(v, normal)
    IN <<v[1] - Trunc(d * normal[1], 1000000),
         v[2] - Trunc(d * normal[2], 1000000),
         v[3] - Trunc(d * normal[3], 1000000)>>

\* the body of the forEach of handleObstacleCollisions for one obstacle:
\* normal is toObstacle normalized in place, and normal.multiplyScalar(radius)
\* scales that same vector before reflect reads it
ObstacleCollision(pt, obstacle, damping) ==
    LET toObstacle == VSub(pt.p, obstacle.position)
    IN IF WithinRadius(toObstacle, obstacle.radius)
       THEN LET normal == ScaleToLength(toObstacle, obstacle.radius)
            IN [p |-> VAdd(obstacle.position, normal),
                v |-> VMulDiv(Reflect(pt.v, normal), damping, 100)]
       ELSE pt

RECURSIVE ObstaclesFrom(_, _, _, _)
ObstaclesFrom(pt, obs, k, damping) ==
    IF k > Len(obs) THEN pt
    ELSE ObstaclesFrom(ObstacleCollision(pt, obs[k], damping), obs, k + 1, damping)

handleObstacleCollisions(pt, obs, prm) == ObstaclesFrom(pt, obs, 1, prm.damping)

(***************************************************************************)
(* Integration.                                                            *)
(***************************************************************************)
\* a velocity limit that clamps each component instead of the length
LimitVelocityPerAxis(v) ==
    <<Max(-maxVelocity, Min(maxVelocity, v[1])),
      Max(-maxVelocity, Min(maxVelocity, v[2])),
      Max(-maxVelocity, Min(maxVelocity, v[3]))>>

\* the velocity limit
LimitVelocity(v) ==
    IF Len2(v) > maxVelocity * maxVelocity THEN ScaleToLength(v, maxVelocity) ELSE v

\* accelerations[i].multiplyScalar(subDt): scales the stored acceleration and
\* returns that same vector
AccelerationScaled(a) == VMulSubDt(a)

\* The body of the sub-step loop for one particle pt = [p, v, a], statement
\* by statement; each statement extends the record of the values so far.
\* velocities[i].add(accelerations[i].multiplyScalar(subDt))
StepAccelerate(pt) ==
    [p0 |-> pt.p, v0 |-> pt.v, a0 |-> pt.a, a |-> AccelerationScaled(pt.a),
     vAdded |-> VAdd(pt.v, AccelerationScaled(pt.a))]

StepLimit(st) == [vLimited |-> LimitVelocity(st.vAdded)] @@ st

\* the position update with the velocity that the limit was given
StepMoveUnlimited(st) == [pMoved |-> VAdd(st.p0, Displacement(st.vAdded))] @@ st

\* particles[i].add(velocities[i].clone().multiplyScalar(subDt))
StepMove(st) == [pMoved |-> VAdd(st.p0, Displacement(st.vLimited))] @@ st

StepBoundary(st, prm) ==
    [box |-> handleBoundaryCollisions([p |-> st.pMoved, v |-> st.vLimited], prm)] @@ st

\* the sub-step without the call of handleGridCollision
StepGridSkipped(st, prm, perturbation) == [grid |-> st.box] @@ st

StepGrid(st, prm, perturbation) ==
    [grid |-> handleGridCollision(st.box, prm, perturbation)] @@ st

StepObstacles(st, obs, prm) ==
    [after |-> handleObstacleCollisions(st.grid, obs, prm)] @@ st

\* the particle after the sub-step, with the intermediate values
StepResult(st) ==
    [p |-> st.after.p, v |-> st.after.v, a |-> st.a,
     p0 |-> st.p0, v0 |-> st.v0, a0 |-> st.a0,
     vAdded |-> st.vAdded, vLimited |-> st.vLimited, pMoved |-> st.pMoved,
     box |-> st.box, grid |-> st.grid]

SubStepParticle(pt, obs, prm, perturbation) ==
    StepResult(StepObstacles(StepGrid(StepBoundary(StepMove(StepLimit(
        StepAccelerate(pt))), prm), prm, perturbation), obs, prm))

\* the sub-steps from number step on; log collects one entry per sub-step
\* and particle
RECURSIVE SubSteps(_, _, _, _)
\* the object and the log after sub-step number step, whose loop over the
\* particles gave r
SubStepDone(s, step, perturbation, log, r) ==
    SubSteps([s EXCEPT !.particles = Array([i \in 1..Len(r) |-> r[i].p]),
                       !.velocities = Array([i \in 1..Len(r) |-> r[i].v]),
                       !.accelerations = Array([i \in 1..Len(r) |-> r[i].a])],
             step + 1, perturbation,
             log \o Array([i \in 1..Len(r) |-> [step |-> step, i |-> i] @@ r[i]]))

SubSteps(s, step, perturbation, log) ==
    IF step >= subSteps THEN [sim |-> s, log |-> log]
    ELSE SubStepDone(s, step, perturbation, log,
             Array([i \in 1..Len(s.particles) |->
                 SubStepParticle([p |-> s.particles[i], v |-> s.velocities[i],
                                  a |-> s.accelerations[i]],
                                 s.obstacles, s.params, perturbation)]))

\* the refresh of the mesh buffer at the end of update(): writes past the end
\* of the typed array are dropped
refreshPositions(s) ==
    [s EXCEPT !.positions =
        Array([k \in 1..Len(s.positions) |->
            IF k <= Len(s.particles) THEN s.particles[k] ELSE @[k]])]

\* the end of update(): r is the outcome of the sub-steps that started from
\* s1; each entry of the log gets the acceleration aFrame that its particle
\* had when the sub-step loop started
UpdateDone(s1, r) ==
    [sim |-> refreshPositions(r.sim),
     log |-> Array([k \in 1..Len(r.log) |->
                r.log[k] @@ [aFrame |-> s1.accelerations[r.log[k].i]]])]

\* update() from the sub-step loop on; s1 is the object after updateSources,
\* which may have raised
Integrate(s1, perturbation) ==
    IF s1.threw THEN [sim |-> s1, log |-> <<>>]
    ELSE UpdateDone(s1, SubSteps(s1, 0, perturbation, <<>>))

\* update() at wall-clock time t; the result carries the object and the log
\* of the sub-steps
update(s, t, jitter, perturbation) ==
    Integrate(updateSources(computeForces(computeDensityPressure(findNeighbors(s))),
                            t, jitter), perturbation)

(***************************************************************************)
(* Pointer interaction and scenarios.                                      *)
(***************************************************************************)
\* applyForceToNearbyParticles without the test distance < interactionRadius
\* and with the factor 1 - distance / interactionRadius left out
applyForceToAllParticles(s, center) ==
    [s EXCEPT !.velocities =
        Array([i \in 1..Len(s.velocities) |->
            IF i <= Len(s.particles)
            THEN VAdd(@[i], ScaleToLength(VSub(center, s.particles[i]), interactionForce))
            ELSE @[i]])]

applyForceToNearbyParticles(s, center) ==
    [s EXCEPT !.velocities =
        Array([i \in 1..Len(s.velocities) |->
            IF i <= Len(s.particles)
               /\ WithinRadius(VSub(center, s.particles[i]), interactionRadius)
            THEN LET toCenter == VSub(center, s.particles[i])
                     distance == Length(toCenter)
                     magnitude == Trunc(interactionForce * (interactionRadius - distance),
                                        interactionRadius)
                 IN VAdd(@[i], ScaleToLength(toCenter, magnitude))
            ELSE @[i]])]

clearSources(s) == [s EXCEPT !.sources = <<>>, !.scenarioSources = <<>>]

\* clearObstacles that leaves the list as it is
clearObstaclesKeeping(s) == s

clearObstacles(s) == [s EXCEPT !.obstacles = <<>>]

ScenarioSource(position, rate, velocity) ==
    [position |-> position, rate |-> rate, lastSpawn |-> 0, velocity |-> velocity]

setupWaterfall(s) ==
    LET sourceCount == 10
        s1 == [s EXCEPT !.scenarioSources = @ \o
                  Array([i \in 1..sourceCount |->
                      ScenarioSource(<<-4000 + (i - 1) * 800, 4000, 0>>, sourceRate,
                                     <<50, -200, 0>>)])]
    IN addObstacle(addObstacle(s1, <<-2000, 2000, 0>>), <<2000, 1000, 0>>)

setupLake(s, jitter) ==
    LET s1 == initSimulation([s EXCEPT !.params.viscosity = 10,
                                       !.params.surfaceTension = 5], jitter)
    IN addObstacle(addObstacle(addObstacle(addObstacle(s1,
           <<-4000, 0, 0>>), <<4000, 0, 0>>), <<0, 0, -4000>>), <<0, 0, 4000>>)

\* setInterval(callback, 16): the timer is registered and never cleared
setupWaves(s, jitter) ==
    LET s1 == initSimulation([s EXCEPT !.params.viscosity = 3,
                                       !.params.surfaceTension = 1], jitter)
    IN [s1 EXCEPT !.timers = Append(@, "waves")]

\* cos and sin of i / 8 * 2 pi for i = 0..7, in 1/1000
Cos8 == <<1000, 707, 0, -707, -1000, -707, 0, 707>>
Sin8 == <<0, 707, 1000, 707, 0, -707, -1000, -707>>

setupFountain(s) ==
    LET subSourceCount == 8
        centerSource == ScenarioSource(<<0, 0, 0>>, sourceRate * 2, <<0, 400, 0>>)
    IN [s EXCEPT !.scenarioSources = (@ \o <<centerSource>>) \o
          Array([i \in 1..subSourceCount |->
              ScenarioSource(<<Trunc(Cos8[i] * 2000, 1000), 2000, Trunc(Sin8[i] * 2000, 1000)>>,
                             sourceRate,
                             <<Trunc(Cos8[i] * 150, 1000), 200, Trunc(Sin8[i] * 150, 1000)>>)])]

\* spot is the outcome <<x, z>> of the draws (Math.random() - 0.5) * 8
setupRain(s, spot) ==
    LET rainSourceCount == 20
    IN [s EXCEPT !.scenarioSources = @ \o
          Array([i \in 1..rainSourceCount |->
              ScenarioSource(<<spot[1], 5000, spot[2]>>, sourceRate \div 2, <<0, -300, 0>>)])]

setupWhirlpool(s, jitter) ==
    LET s1 == initSimulation([s EXCEPT !.params.viscosity = 2,
                                       !.params.surfaceTension = 1], jitter)
    IN [s1 EXCEPT !.timers = Append(@, "whirlpool")]

loadScenario(s, scenario, jitter, spot) ==
    LET s1 == clearObstacles(clearSources([s EXCEPT !.currentScenario = scenario]))
    IN CASE scenario = "waterfall" -> setupWaterfall(s1)
         [] scenario = "lake" -> setupLake(s1, jitter)
         [] scenario = "waves" -> setupWaves(s1, jitter)
         [] scenario = "fountain" -> setupFountain(s1)
         [] scenario = "rain" -> setupRain(s1, spot)
         [] scenario = "whirlpool" -> setupWhirlpool(s1, jitter)
         [] OTHER -> resetSimulation(s1, jitter)

\* waveTick without the test of currentScenario
waveTickUnchecked(s, wave) ==
    [s EXCEPT !.velocities =
        Array([i \in 1..Len(s.velocities) |->
            IF i <= Len(s.particles)
            THEN [@[i] EXCEPT ![2] = @ + Trunc(wave * waveAmplitude, 1000)]
            ELSE @[i]])]

\* the callback of the wave timer; wave is the value of
\* sin(time * f + x * 0.5) * cos(time * f + z * 0.5), in 1/1000
waveTick(s, wave) ==
    IF s.currentScenario = "waves"
    THEN [s EXCEPT !.velocities =
            Array([i \in 1..Len(s.velocities) |->
                IF i <= Len(s.particles)
                THEN [@[i] EXCEPT ![2] = @ + Trunc(wave * waveAmplitude, 1000)]
                ELSE @[i]])]
    ELSE s

\* the callback of the whirlpool timer
whirlpoolTick(s) ==
    IF s.currentScenario = "whirlpool"
    THEN [s EXCEPT !.velocities =
            Array([i \in 1..Len(s.velocities) |->
                IF i <= Len(s.particles)
                THEN LET toCenter == VNeg(s.particles[i])
                         distance == Length(toCenter)
                     IN IF Len2(toCenter) > 100 * 100
                        THEN VAdd(@[i],
                                 ScaleToLength(<<-toCenter[3], 0, toCenter[1]>>,
                                     Trunc(whirlpoolStrength * 1000, Max(1000, distance))))
                        ELSE @[i]
                ELSE @[i]])]
    ELSE s

(***************************************************************************)
(* The program: construction, user-interface events, timers and frames.    *)
(***************************************************************************)
Done(op, threw) ==
    [op |-> op, threw |-> threw, count |-> Len(particles), due |-> FALSE]

Unwatched == <<>>

\* new FluidSimulation(): the default particleCount fills the block
Init ==
    \E jitter \in JitterSet :
        LET s0 == [params |-> [particleCount |-> BlockCapacity,
                               gravity |-> gravityDefault,
                               damping |-> dampingDefault,
                               collisionThreshold |-> collisionThresholdDefault,
                               viscosity |-> viscosityDefault,
                               surfaceTension |-> surfaceTensionDefault],
                    particles |-> <<>>, velocities |-> <<>>, accelerations |-> <<>>,
                    densities |-> <<>>, pressures |-> <<>>, neighbors |-> <<>>,
                    sources |-> <<>>, scenarioSources |-> <<>>, obstacles |-> <<>>,
                    positions |-> <<>>, currentScenario |-> "default",
                    timers |-> <<>>, threw |-> FALSE]
            s1 == initSimulation(s0, jitter)
        IN /\ params = s1.params
           /\ particles = s1.particles
           /\ velocities = s1.velocities
           /\ accelerations = s1.accelerations
           /\ densities = s1.densities
           /\ pressures = s1.pressures
           /\ neighbors = s1.neighbors
           /\ sources = <<>>
           /\ scenarioSources = <<>>
           /\ obstacles = <<>>
           /\ positions = s1.particles
           /\ currentScenario = "default"
           /\ currentTool = "orbit"
           /\ isInteracting = FALSE
           /\ timers = <<>>
           /\ rafQueue = <<>>
           /\ inFrame = FALSE
           /\ now = Epoch
           /\ last = [op |-> "constructor", threw |-> FALSE, count |-> 0, due |-> FALSE]
           /\ trace = <<>>
           /\ frames = 0
           /\ events = 0
           /\ watch = Unwatched

Callback(kind, point) == [kind |-> kind, point |-> point]

\* a user-interface event or a timer callback is handled between two frames
Event ==
    /\ ~inFrame
    /\ events < MaxEvents
    /\ events' = events + 1
    /\ UNCHANGED <<inFrame, now, trace, frames>>

\* the input listener of a slider
InputParam(param, value) ==
    /\ Event
    /\ LET s1 == [Cur EXCEPT !.params[param] = value]
           s2 == IF param = "gravity"
                 THEN [s1 EXCEPT !.accelerations =
                          Array([i \in 1..Len(@) |-> [@[i] EXCEPT ![2] = -value]])]
                 ELSE s1
       IN Becomes(s2)
    /\ rafQueue' = IF param = "particleCount"
                   THEN Append(rafQueue, Callback("reset", Zero3))
                   ELSE rafQueue
    /\ watch' = IF param = "particleCount" THEN Unwatched ELSE watch
    /\ last' = Done("input", FALSE)
    /\ UNCHANGED <<currentTool, isInteracting>>

\* the click listener of the reset button
ClickReset ==
    /\ Event
    /\ rafQueue' = Append(rafQueue, Callback("reset", Zero3))
    /\ last' = Done("click", FALSE)
    /\ UNCHANGED <<simVars, currentTool, isInteracting, watch>>

\* the click listener of a tool button
ToolClick(tool) ==
    /\ Event
    /\ currentTool' = tool
    /\ last' = Done("tool", FALSE)
    /\ UNCHANGED <<simVars, isInteracting, rafQueue, watch>>

\* the callback that handleMouseDown requests; tool is the tool at the
\* mousedown, which the callback does not read
Placement(point, tool) == [kind |-> "place", point |-> point, tool |-> tool]

\* mousedown on the canvas with the ray hitting the plane at point
MouseDown(point) ==
    /\ Event
    /\ currentTool # "orbit"
    /\ isInteracting' = TRUE
    /\ rafQueue' = IF currentTool \in {"add-obstacle", "source"}
                   THEN Append(rafQueue, Placement(point, currentTool))
                   ELSE rafQueue
    /\ last' = Done("mousedown", FALSE)
    /\ UNCHANGED <<simVars, currentTool, watch>>

\* mousemove on the canvas with the ray hitting the plane at point
MouseMove(point) ==
    /\ Event
    /\ currentTool # "orbit"
    /\ rafQueue' = IF isInteracting /\ currentTool = "interact"
                   THEN Append(rafQueue, Callback("force", point))
                   ELSE rafQueue
    /\ last' = Done("mousemove", FALSE)
    /\ UNCHANGED <<simVars, currentTool, isInteracting, watch>>

\* mouseup on the canvas: main.js calls handleMouseUp() without the event, so
\* event.preventDefault() raises before isInteracting is cleared
MouseUp ==
    /\ Event
    /\ currentTool # "orbit"
    /\ last' = Done("mouseup", TRUE)
    /\ UNCHANGED <<simVars, currentTool, isInteracting, rafQueue, watch>>

\* what a call loadScenario(scenario) leaves behind, with the state that the
\* call found
Loaded(scenario, threw) ==
    [op |-> "loadScenario", threw |-> threw, count |-> Len(particles), due |-> FALSE,
     scenario |-> scenario, before |-> Cur]

\* the click listener of a scenario button
ScenarioClick(scenario, jitter, spot) ==
    /\ Event
    /\ LET s1 == loadScenario(Cur, scenario, jitter, spot)
       IN /\ Becomes(s1)
          /\ last' = Loaded(scenario, s1.threw)
    /\ watch' = Unwatched
    /\ UNCHANGED <<currentTool, isInteracting, rafQueue>>

\* one firing of the k-th registered interval timer
TimerFire(k, wave) ==
    /\ Event
    /\ k \in 1..Len(timers)
    /\ Becomes(IF timers[k] = "waves" THEN waveTick(Cur, wave) ELSE whirlpoolTick(Cur))
    /\ last' = [op |-> "timer", threw |-> FALSE, count |-> Len(particles), due |-> FALSE,
                timer |-> timers[k]]
    /\ UNCHANGED <<currentTool, isInteracting, rafQueue, watch>>

\* what a frame's update() that produced r leaves behind
Updated(r, t) ==
    /\ Becomes(r.sim)
    /\ trace' = r.log
    /\ last' = [op |-> "update", threw |-> r.sim.threw, count |-> Len(particles),
                due |-> \E k \in 1..Len(sources \o scenarioSources) :
                           SourceDue((sources \o scenarioSources)[k], t)]
    /\ watch' = IF watch = Unwatched THEN watch
                ELSE [watch EXCEPT !.spawned = @ + Len(r.sim.particles) - Len(particles)]

\* App.animate, the first animation-frame callback of a frame: update() at
\* the time of the frame; the callbacks registered since the previous frame
\* follow it
Animate(gap, jitter, perturbation) ==
    /\ ~inFrame
    /\ frames < MaxFrames
    /\ frames' = frames + 1
    /\ now' = now + gap
    /\ Updated(update(Cur, now + gap, jitter, perturbation), now + gap)
    /\ inFrame' = (rafQueue # <<>>)
    /\ UNCHANGED <<currentTool, isInteracting, rafQueue, events>>

\* the next animation-frame callback of the running frame
RunCallback(jitter) ==
    /\ inFrame
    /\ rafQueue # <<>>
    /\ rafQueue' = Tail(rafQueue)
    /\ inFrame' = (Tail(rafQueue) # <<>>)
    /\ LET cb == Head(rafQueue)
           s1 == CASE cb.kind = "reset" -> resetSimulation(Cur, jitter)
                   [] cb.kind = "force" -> applyForceToNearbyParticles(Cur, cb.point)
                   [] cb.kind = "place" ->
                        IF currentTool = "add-obstacle"
                        THEN addObstacle(Cur, cb.point)
                        ELSE addSource(Cur, cb.point)
       IN /\ Becomes(s1)
          /\ last' = Done(IF cb.kind = "place"
                          THEN (IF currentTool = "add-obstacle" THEN "addObstacle"
                                ELSE "addSource")
                          ELSE cb.kind, s1.threw)
          /\ watch' = IF cb.kind = "reset" THEN Unwatched
                      ELSE IF cb.kind = "place" /\ currentTool # "add-obstacle"
                      THEN (IF sources = <<>> /\ scenarioSources = <<>>
                            THEN [born |-> now, rate |-> userSourceRate, spawned |-> 0,
                                  room |-> Max(0, params.particleCount - Len(particles))]
                            ELSE Unwatched)
                      ELSE watch
    /\ UNCHANGED <<currentTool, isInteracting, now, trace, frames, events>>

\* the program under a user who changes the particle count, resets, loads
\* scenarios and places obstacles and sources
Next ==
    \/ \E pv \in ParamInputs : InputParam(pv[1], pv[2])
    \/ ClickReset
    \/ \E tool \in ToolInputs : ToolClick(tool)
    \/ \E point \in ClickPoints : MouseDown(point)
    \/ \E scenario \in ScenarioInputs, jitter \in JitterSet, spot \in RainSpots :
           ScenarioClick(scenario, jitter, spot)
    \/ \E gap \in FrameGaps, jitter \in JitterSet, perturbation \in PerturbationSet :
           Animate(gap, jitter, perturbation)
    \/ \E jitter \in JitterSet : RunCallback(jitter)

Spec == Init /\ [][Next]_vars

(***************************************************************************)
(* The engine in the middle of a run: particles that earlier frames have   *)
(* moved through the box, obstacles that the user has placed on the plane, *)
(* a scenario that has been loaded.  The frames and the impulses between   *)
(* them (pointer drags with the interact tool, timer callbacks) go on.     *)
(***************************************************************************)
\* positions that a particle has reached
MotionPositions == {<<4900, 50, 0>>, <<200, 50, 100>>, <<4990, 4990, -4990>>}
\* velocities that a particle has when a frame ends or an impulse was added
MotionVelocities == {<<-400, -300, 0>>, <<450, 300, -200>>}
\* offsets from the particle to a second one, which is at rest within the
\* smoothing length
MotionCompanions == {<<-100, 0, 150>>}
\* obstacles added with the add-obstacle tool: none, one, two that overlap
\* with centres less than a radius apart, two that overlap with centres more
\* than a radius apart
MotionObstacles ==
    {<<>>,
     <<[position |-> <<4800, 0, 0>>, radius |-> obstacleRadius]>>,
     <<[position |-> <<4800, 0, 0>>, radius |-> obstacleRadius],
       [position |-> <<4700, 200, 0>>, radius |-> obstacleRadius]>>,
     <<[position |-> <<4800, 0, 0>>, radius |-> obstacleRadius],
       [position |-> <<5500, 0, 0>>, radius |-> obstacleRadius]>>}
\* the scenario loaded last: one of those that register a timer
MotionScenarios == {"waves", "whirlpool"}

\* a particle with its velocity and the obstacles: the user has placed
\* obstacles on the particle that lies where the pointer reaches the plane
MotionCases ==
    {c \in MotionPositions \X MotionVelocities \X MotionObstacles :
        (c[3] # <<>>) = (\E point \in ClickPoints :
                            WithinRadius(VSub(c[1], point), obstacleRadius))}

InitMotion ==
    \E c \in MotionCases, companion \in MotionCompanions, scenario \in MotionScenarios :
        LET position == c[1]
            velocity == c[2]
            obs == c[3]
            ps == <<position, VAdd(position, companion)>>
            n == Len(ps)
        IN /\ params = [particleCount |-> n,
                        gravity |-> gravityDefault,
                        damping |-> dampingDefault,
                        collisionThreshold |-> collisionThresholdDefault,
                        viscosity |-> CASE scenario = "waves" -> 3
                                        [] scenario = "whirlpool" -> 2
                                        [] OTHER -> viscosityDefault,
                        surfaceTension |-> IF scenario = "default"
                                           THEN surfaceTensionDefault ELSE 1]
           /\ particles = ps
           /\ velocities = Array([k \in 1..n |-> IF k = 1 THEN velocity ELSE Zero3])
           /\ accelerations = Array([k \in 1..n |-> <<0, -gravityDefault, 0>>])
           /\ densities = Array([k \in 1..n |-> 0])
           /\ pressures = Array([k \in 1..n |-> 0])
           /\ neighbors = Array([k \in 1..n |-> <<>>])
           /\ sources = <<>>
           /\ scenarioSources = <<>>
           /\ obstacles = obs
           /\ positions = ps
           /\ currentScenario = scenario
           /\ currentTool = "interact"
           /\ isInteracting = TRUE
           /\ timers = IF scenario = "default" THEN <<>> ELSE <<scenario>>
           /\ rafQueue = <<>>
           /\ inFrame = FALSE
           /\ now = Epoch
           /\ last = [op |-> "mousedown", threw |-> FALSE, count |-> n, due |-> FALSE]
           /\ trace = <<>>
           /\ frames = 0
           /\ events = 0
           /\ watch = Unwatched

NextMotion ==
    \/ \E point \in DragPoints : MouseMove(point)
    \/ \E k \in 1..Len(timers), wave \in WaveValues : TimerFire(k, wave)
    \/ \E gap \in FrameGaps, jitter \in JitterSet, perturbation \in PerturbationSet :
           Animate(gap, jitter, perturbation)
    \/ \E jitter \in JitterSet : RunCallback(jitter)

SpecMotion == InitMotion /\ [][NextMotion]_vars

(***************************************************************************)
(* The scenarios: loadScenario with every name of a scenario button and    *)
(* with a name that is none of them, the interval timers that setupWaves   *)
(* and setupWhirlpool register, and between the calls the frames and the   *)
(* user's obstacles and sources.                                           *)
(***************************************************************************)
\* a name that the switch of loadScenario has no case for
UnrecognizedNames == {"storm"}
\* the arguments of loadScenario
LoadInputs == ScenarioNames \cup UnrecognizedNames

\* the constructed simulation, after the user has placed one obstacle and
\* then one source with the tools of these names
InitScenario ==
    \E jitter \in JitterSet, point \in ClickPoints :
        LET s0 == [params |-> [particleCount |-> BlockCapacity,
                               gravity |-> gravityDefault,
                               damping |-> dampingDefault,
                               collisionThreshold |-> collisionThresholdDefault,
                               viscosity |-> viscosityDefault,
                               surfaceTension |-> surfaceTensionDefault],
                    particles |-> <<>>, velocities |-> <<>>, accelerations |-> <<>>,
                    densities |-> <<>>, pressures |-> <<>>, neighbors |-> <<>>,
                    sources |-> <<>>, scenarioSources |-> <<>>, obstacles |-> <<>>,
                    positions |-> <<>>, currentScenario |-> "default",
                    timers |-> <<>>, threw |-> FALSE]
            s1 == initSimulation(s0, jitter)
            s2 == addSource(addObstacle(s1, point), point)
        IN /\ params = s2.params
           /\ particles = s2.particles
           /\ velocities = s2.velocities
           /\ accelerations = s2.accelerations
           /\ densities = s2.densities
           /\ pressures = s2.pressures
           /\ neighbors = s2.neighbors
           /\ sources = s2.sources
           /\ scenarioSources = s2.scenarioSources
           /\ obstacles = s2.obstacles
           /\ positions = s1.particles
           /\ currentScenario = "default"
           /\ currentTool = "source"
           /\ isInteracting = TRUE
           /\ timers = <<>>
           /\ rafQueue = <<>>
           /\ inFrame = FALSE
           /\ now = Epoch
           /\ last = [op |-> "addSource", threw |-> FALSE,
                      count |-> Len(s1.particles), due |-> FALSE]
           /\ trace = <<>>
           /\ frames = 0
           /\ events = 0
           /\ watch = Unwatched

\* the draw of handleGridCollision that adds no perturbation
CalmPerturbations == {<<>>}

NextScenario ==
    \/ \E scenario \in LoadInputs, jitter \in JitterSet, spot \in RainSpots :
           ScenarioClick(scenario, jitter, spot)
    \/ \E k \in 1..Len(timers), wave \in WaveValues : TimerFire(k, wave)
    \/ \E gap \in FrameGaps, jitter \in JitterSet, perturbation \in CalmPerturbations :
           Animate(gap, jitter, perturbation)

SpecScenario == InitScenario /\ [][NextScenario]_vars

(***************************************************************************)
(* A particle that falls onto the plane at the speed limit, as the         *)
(* particles of the block do after their fall from a height of 3, while    *)
(* the user moves the damping slider.                                      *)
(***************************************************************************)
\* heights from which the second or the first sub-step of the next frame
\* reaches the plane
FallPositions == {<<200, 150, 100>>, <<200, 30, 100>>}
\* velocities of the fall, with and without a horizontal drift
FallVelocities == {<<0, -500, 0>>, <<40, -495, 0>>}
\* the ends of the damping slider, in percent
DampingInputs == {<<"damping", 0>>, <<"damping", 100>>}

InitFall ==
    \E position \in FallPositions, velocity \in FallVelocities :
        /\ params = [particleCount |-> 1,
                     gravity |-> gravityDefault,
                     damping |-> dampingDefault,
                     collisionThreshold |-> collisionThresholdDefault,
                     viscosity |-> viscosityDefault,
                     surfaceTension |-> surfaceTensionDefault]
        /\ particles = <<position>>
        /\ velocities = <<velocity>>
        /\ accelerations = <<<<0, -gravityDefault, 0>>>>
        /\ densities = <<0>>
        /\ pressures = <<0>>
        /\ neighbors = <<<<>>>>
        /\ sources = <<>>
        /\ scenarioSources = <<>>
        /\ obstacles = <<>>
        /\ positions = <<position>>
        /\ currentScenario = "default"
        /\ currentTool = "orbit"
        /\ isInteracting = FALSE
        /\ timers = <<>>
        /\ rafQueue = <<>>
        /\ inFrame = FALSE
        /\ now = Epoch
        /\ last = [op |-> "update", threw |-> FALSE, count |-> 1, due |-> FALSE]
        /\ trace = <<>>
        /\ frames = 0
        /\ events = 0
        /\ watch = Unwatched

\* the ends of the collisionThreshold slider's use here: its minimum 0.01
\* and the default 0.1
ThresholdInputs == {<<"collisionThreshold", 10>>, <<"collisionThreshold", 100>>}

NextFall ==
    \/ \E pv \in DampingInputs \cup ThresholdInputs : InputParam(pv[1], pv[2])
    \/ \E gap \in FrameGaps, jitter \in JitterSet, perturbation \in PerturbationSet :
           Animate(gap, jitter, perturbation)

SpecFall == InitFall /\ [][NextFall]_vars

(***************************************************************************)
(* Properties of the particle arrays, of update() and of the sources,      *)
(* under Spec.                                                             *)
(***************************************************************************)
\* C1: every call of update() runs to completion without raising an error
UpdateNeverRaises == last.op = "update" => ~last.threw

\* C2: in every state the number of particles is at most params.particleCount
CountWithinCapacity == Len(particles) <= params.particleCount

\* C3: the six per-particle arrays have the same length in every state, also
\* after an operation that aborted with an error
ArraysSameLength ==
    /\ Len(velocities) = Len(particles)
    /\ Len(accelerations) = Len(particles)
    /\ Len(densities) = Len(particles)
    /\ Len(pressures) = Len(particles)
    /\ Len(neighbors) = Len(particles)
\* an update() that a spawning source aborted after the particle was pushed
AbortedAfterSpawn == last.op = "update" /\ last.threw /\ Len(particles) > last.count

\* C8: the one source added, of rate R and active since T seconds, has spawned
\* exactly min(floor(T * R), particleCount - count at the time it was added)
SourceSpawnsAtItsRate ==
    watch # Unwatched =>
        watch.spawned = Min(((now - watch.born) * watch.rate) \div 1000, watch.room)

\* C9: an update() that starts with particleCount particles and a source that
\* is due raises no error and leaves the length of every per-particle array
FullSourceAppendsNothing ==
    (last.op = "update" /\ last.due /\ last.count = params.particleCount) =>
        /\ ~last.threw
        /\ Len(particles) = last.count
        /\ Len(velocities) = last.count
        /\ Len(accelerations) = last.count
        /\ Len(densities) = last.count
        /\ Len(pressures) = last.count
        /\ Len(neighbors) = last.count
\* an update() has run with a due source and the arrays full
DueSourceAtCapacity ==
    last.op = "update" /\ last.due /\ last.count = params.particleCount

\* C10: after resetSimulation() there are params.particleCount particles and
\* every velocity is the zero vector
ResetRestoresCount ==
    last.op = "reset" =>
        /\ Len(particles) = params.particleCount
        /\ \A i \in 1..Len(velocities) : velocities[i] = Zero3

(***************************************************************************)
(* Properties of the sub-steps of update(), under SpecMotion.              *)
(***************************************************************************)
InBox(p) == \A axis \in 1..3 : boxMin <= p[axis] /\ p[axis] <= boxMax

\* C4: after every completed update() every particle lies in the bounding box
InsideBoxAfterUpdate ==
    (last.op = "update" /\ ~last.threw) => \A i \in 1..Len(particles) : InBox(particles[i])

\* C5: every sub-step adds subDt times the acceleration that computeForces
\* produced for the frame, and leaves the stored acceleration as it was
SubStepsAddFrameAcceleration ==
    \A k \in 1..Len(trace) :
        /\ trace[k].vAdded = VAdd(trace[k].v0, VMulSubDt(trace[k].aFrame))
        /\ trace[k].a = trace[k].aFrame

\* v - 2 (v . n) n / |n|^2: the mirror image of v about the plane normal to n
MirrorReflection(v, n) ==
    LET d == 2 * Dot(v, n)
    IN <<v[1] - Trunc(d * n[1], Len2(n)),
         v[2] - Trunc(d * n[2], Len2(n)),
         v[3] - Trunc(d * n[3], Len2(n))>>
\* equal up to the rounding of the last digit
NearlyEqual(a, b) == \A axis \in 1..3 : Abs(a[axis] - b[axis]) <= 2

\* C6: a particle that a sub-step finds strictly inside the one obstacle
\* leaves the collision with damping times the mirror reflection of its
\* velocity about the outward normal, and not moving into the obstacle
ObstacleReflectsVelocity ==
    (last.op = "update" /\ Len(obstacles) = 1) =>
        \A k \in 1..Len(trace) :
            LET outward == VSub(trace[k].grid.p, obstacles[1].position)
            IN (WithinRadius(outward, obstacles[1].radius) /\ outward # Zero3) =>
                   /\ NearlyEqual(trace[k].v,
                                  VMulDiv(MirrorReflection(trace[k].grid.v, outward),
                                          params.damping, 100))
                   /\ Dot(trace[k].v, outward) >= 0

\* C7: in every sub-step the speed right after the velocity limit is at most
\* maxVelocity
SpeedLimited ==
    \A k \in 1..Len(trace) : Len2(trace[k].vLimited) <= maxVelocity * maxVelocity
\* a frame starts with the particle that was at rest faster than maxVelocity:
\* impulses have been added to it
LimitedAfterImpulse ==
    \E k \in 1..Len(trace) :
        /\ trace[k].i = 2
        /\ trace[k].step = 0
        /\ Len2(trace[k].v0) > maxVelocity * maxVelocity


\* the horizontal radius vector of a position
Planar(p) == <<p[1], 0, p[3]>>

\* dv is horizontal, perpendicular to the horizontal radius vector of p, and
\* of magnitude whirlpoolStrength / max(1, d) for the planar distance d of p
WhirlpoolImpulse(p, dv) ==
    LET d == Length(Planar(p))
        magnitude == Trunc(whirlpoolStrength * 1000, Max(1000, d))
    IN /\ dv[2] = 0
       /\ Abs(Length(dv) - magnitude) <= 2
       /\ Abs(Dot(dv, Planar(p))) <= Abs(p[1]) + Abs(p[3])

\* C18: a tick of the whirlpool timer under the 'whirlpool' scenario adds to
\* every particle at a planar distance above 0.1 from the origin a
\* horizontal velocity of magnitude whirlpoolStrength / max(1, planar
\* distance), perpendicular to its horizontal radius vector
WhirlpoolTickIsPlanar ==
    [][(last'.op = "timer" /\ events' = events + 1 /\ last'.timer = "whirlpool"
            /\ currentScenario = "whirlpool")
          => \A i \in 1..Len(particles) :
                 Len2(Planar(particles[i])) > 100 * 100
                     => WhirlpoolImpulse(particles[i], VSub(velocities'[i], velocities[i]))]_vars

\* the position that particle i had when the sub-steps of the last update()
\* started, which is its position when findNeighbors ran
PositionAtSearch(i) ==
    trace[CHOOSE k \in 1..Len(trace) : trace[k].step = 0 /\ trace[k].i = i].p0

\* C21: after findNeighbors every index j listed in neighbors[i] differs
\* from i, is the index of an existing particle, and lies at a distance
\* below smoothingLength from particle i at that moment
NeighborsAreNear ==
    (last.op = "update" /\ trace # <<>>)
        => \A i \in 1..Len(neighbors) :
               \A n \in 1..Len(neighbors[i]) :
                   LET j == neighbors[i][n]
                   IN /\ j # i
                      /\ j \in 1..Len(particles)
                      /\ Len2(VSub(PositionAtSearch(i), PositionAtSearch(j)))
                             < smoothingLength * smoothingLength

\* update() has listed a neighbor for a particle
NeighborListed ==
    /\ last.op = "update"
    /\ trace # <<>>
    /\ \E i \in 1..Len(neighbors) : neighbors[i] # <<>>

\* the cross product
Cross(a, b) ==
    <<a[2] * b[3] - a[3] * b[2], a[3] * b[1] - a[1] * b[3], a[1] * b[2] - a[2] * b[1]>>

\* dv lies along the line from p through center and has the magnitude
\* interactionForce * (1 - distance / interactionRadius)
PointerImpulse(center, p, dv) ==
    LET toCenter == VSub(center, p)
        slack == Abs(toCenter[1]) + Abs(toCenter[2]) + Abs(toCenter[3])
        magnitude == Trunc(interactionForce * (interactionRadius - Length(toCenter)),
                           interactionRadius)
    IN /\ \A axis \in 1..3 : Abs(Cross(dv, toCenter)[axis]) <= slack
       /\ Abs(Length(dv) - magnitude) <= 2

\* the step is the animation-frame callback that applies the pointer force
ForceStep == inFrame /\ rafQueue # <<>> /\ Head(rafQueue).kind = "force"
                 /\ rafQueue' = Tail(rafQueue)

HitsPlane(e) == Abs(e.box.p[2]) < params.collisionThreshold /\ e.box.v[2] < 0

\* C24: handleGridCollision puts a particle with |y| < collisionThreshold
\* and v_y < 0 at y = 0 with v_y = |old v_y| * damping, which is not
\* negative, and leaves y and v_y of every other particle unchanged
PlaneCollisionReflects ==
    \A k \in 1..Len(trace) :
        IF HitsPlane(trace[k])
        THEN /\ trace[k].grid.p[2] = 0
             /\ trace[k].grid.v[2] = Trunc(Abs(trace[k].box.v[2]) * params.damping, 100)
             /\ trace[k].grid.v[2] >= 0
        ELSE /\ trace[k].grid.p[2] = trace[k].box.p[2]
             /\ trace[k].grid.v[2] = trace[k].box.v[2]

\* an update() in which one sub-step reflects a particle on the plane and
\* another sub-step finds a particle within the threshold that moves up
ReflectedThenRising ==
    /\ \E k \in 1..Len(trace) : HitsPlane(trace[k]) /\ trace[k].box.v[2] < -1
    /\ \E k \in 1..Len(trace) :
           /\ Abs(trace[k].box.p[2]) < params.collisionThreshold
           /\ trace[k].box.v[2] > 0

\* p lies strictly inside the sphere of an obstacle, by more than the
\* rounding of a position that was put on the surface
StrictlyInside(p, obstacle) ==
    WithinRadius(VSub(p, obstacle.position), obstacle.radius - 2)

\* C25: after the obstacle-collision phase of a sub-step no particle lies
\* strictly inside an obstacle sphere, also when two obstacles overlap
OutsideEveryObstacle ==
    \A k \in 1..Len(trace) : \A n \in 1..Len(obstacles) :
        ~StrictlyInside(trace[k].p, obstacles[n])

\* maxVelocity * subDt, in mm
MaxStepLength == Trunc(maxVelocity * 10 * timeStep, subSteps * 1000)

\* C27: in every sub-step the position change of a particle before the
\* collisions has a length of at most maxVelocity * subDt, whatever the
\* pointer and the timers added to its velocity between two frames
MoveWithinStepLength ==
    \A k \in 1..Len(trace) :
        Len2(VSub(trace[k].pMoved, trace[k].p0)) <= MaxStepLength * MaxStepLength

\* a sub-step has moved a particle whose velocity was above the limit after
\* the impulses between two frames
MovedAfterImpulse ==
    \E k \in 1..Len(trace) :
        /\ trace[k].step = 0
        /\ Len2(trace[k].v0) > 4 * maxVelocity * maxVelocity
        /\ trace[k].pMoved # trace[k].p0

(***************************************************************************)
(* Properties of the scenarios and their timers, under SpecScenario.       *)
(***************************************************************************)
\* the registered timers whose callback acts under the active scenario
ActiveTimers == {k \in 1..Len(timers) : timers[k] = currentScenario}

\* C11: after any sequence of loadScenario calls at most one periodic timer
\* is registered, and at most one registered timer applies the impulse of
\* the active scenario in a period
AtMostOneTimer ==
    /\ Len(timers) <= 1
    /\ Cardinality(ActiveTimers) <= 1

\* the block that initSimulation generates: its size and its positions
FreshBlock(ps) ==
    /\ Len(ps) = Min(params.particleCount, BlockCapacity)
    /\ \E jitter \in JitterSet :
           \A k \in 1..Len(ps) : ps[k] = VAdd(BlockPosition(k - 1), jitter)

\* C12: after loadScenario with the name of any of the seven scenarios the
\* particle arrays hold a freshly generated block and every velocity is zero
LoadReinitializesParticles ==
    (last.op = "loadScenario" /\ last.scenario \in ScenarioNames)
        => /\ FreshBlock(particles)
           /\ Len(velocities) = Len(particles)
           /\ \A i \in 1..Len(velocities) : velocities[i] = Zero3

\* the obstacles that loadScenario(scenario) creates
CreatedObstacles(scenario) ==
    CASE scenario = "waterfall" -> <<<<-2000, 2000, 0>>, <<2000, 1000, 0>>>>
      [] scenario = "lake" ->
             <<<<-4000, 0, 0>>, <<4000, 0, 0>>, <<0, 0, -4000>>, <<0, 0, 4000>>>>
      [] OTHER -> <<>>

\* the number of scenario sources that loadScenario(scenario) creates
CreatedSourceCount(scenario) ==
    CASE scenario = "waterfall" -> 10
      [] scenario = "fountain" -> 9
      [] scenario = "rain" -> 20
      [] OTHER -> 0

\* C14: after loadScenario(name) the obstacle list and the scenario-source
\* pool hold only what that call created, each source not yet spawned; after
\* 'lake' then 'default' the obstacle list is empty
LoadLeavesOnlyItsOwn ==
    last.op = "loadScenario"
        => /\ Len(obstacles) = Len(CreatedObstacles(last.scenario))
           /\ \A k \in 1..Len(obstacles) :
                  obstacles[k].position = CreatedObstacles(last.scenario)[k]
           /\ Len(scenarioSources) = CreatedSourceCount(last.scenario)
           /\ \A k \in 1..Len(scenarioSources) : scenarioSources[k].lastSpawn = 0
           /\ (last.before.currentScenario = "lake" /\ last.scenario = "default")
                  => obstacles = <<>>

\* a scenario that creates no obstacle was loaded over the obstacles and the
\* scenario sources of an earlier one
LoadedOverEarlierEntries ==
    /\ last.op = "loadScenario"
    /\ last.before.obstacles # <<>>
    /\ last.before.scenarioSources # <<>>
    /\ CreatedObstacles(last.scenario) = <<>>
    /\ obstacles = <<>>

\* C16: loadScenario with a name that is none of the seven raises no error
\* and leaves what loadScenario('default') leaves: no obstacle, no source, a
\* fresh block at rest, no timer that applies its force field, and 'default'
\* recorded as the active scenario
UnrecognizedFallsBackToDefault ==
    (last.op = "loadScenario" /\ last.scenario \notin ScenarioNames)
        => /\ ~last.threw
           /\ obstacles = <<>>
           /\ sources = <<>>
           /\ scenarioSources = <<>>
           /\ FreshBlock(particles)
           /\ \A i \in 1..Len(velocities) : velocities[i] = Zero3
           /\ ActiveTimers = {}
           /\ currentScenario = "default"

WithConstructedFluid(s) ==
    [s EXCEPT !.params.viscosity = viscosityDefault,
              !.params.surfaceTension = surfaceTensionDefault]

Fluid(s) == <<s.params.viscosity, s.params.surfaceTension>>

\* C29: viscosity and surfaceTension after loadScenario(name) are those that
\* loadScenario(name) leaves on a simulation with the constructor's values,
\* whatever scenario was loaded before
FluidDependsOnNameAlone ==
    (last.op = "loadScenario" /\ ~last.threw)
        => \A jitter \in JitterSet, spot \in RainSpots :
               Fluid(Cur) = Fluid(loadScenario(WithConstructedFluid(last.before),
                                               last.scenario, jitter, spot))

(***************************************************************************)
(* Properties of what the user has placed, of the mesh buffer and of the   *)
(* neighbor lists, under Spec.                                             *)
(***************************************************************************)
\* C13: a source that addSource added is still in the pool sources after a
\* later loadScenario call
LoadKeepsUserSources ==
    last.op = "loadScenario"
        => \A k \in 1..Len(last.before.sources) :
               \E j \in 1..Len(sources) : sources[j] = last.before.sources[k]

\* C15: after resetSimulation() the obstacle list is empty
ResetClearsObstacles ==
    (last.op = "reset" /\ ~last.threw) => obstacles = <<>>

\* C19: after every completed update() the position buffer of the mesh has
\* one entry of three floats per particle, and the entry of particle i holds
\* that particle's current x, y, z
BufferMatchesParticles ==
    (last.op = "update" /\ ~last.threw)
        => /\ Len(positions) = Len(particles)
           /\ \A i \in 1..Len(particles) : positions[i] = particles[i]

\* the particles that findNeighbors has listed for particle i
NeighborSet(i) == {neighbors[i][k] : k \in 1..Len(neighbors[i])}

\* C20: after findNeighbors the neighbor relation is symmetric: j is in
\* neighbors[i] if and only if i is in neighbors[j]
NeighborsSymmetric ==
    \A i \in 1..Len(neighbors), j \in 1..Len(neighbors) :
        (j \in NeighborSet(i)) <=> (i \in NeighborSet(j))

\* update() has found two neighbors in different cells of the spatial hash
NeighborsAcrossCells ==
    /\ last.op = "update"
    /\ \E a \in 1..Len(trace), b \in 1..Len(trace) :
           /\ trace[a].step = 0
           /\ trace[b].step = 0
           /\ trace[b].i \in NeighborSet(trace[a].i)
           /\ KeyOf(trace[a].p0) # KeyOf(trace[b].p0)

\* C22: in one update() no phase is skipped: after the neighbor rebuild,
\* density/pressure, forces and source spawning, the sub-steps run for every
\* particle, and in each sub-step the particle undergoes velocity update,
\* speed clamp, position update, bounding-box collision, plane collision
\* and obstacle collision in that order
PhasesRunInOrder ==
    last.op = "update"
        => /\ Len(trace) = subSteps * Len(particles)
           /\ \A k \in 1..Len(trace) :
                  /\ trace[k].step = (k - 1) \div Len(particles)
                  /\ trace[k].i = ((k - 1) % Len(particles)) + 1
                  /\ trace[k].vAdded = VAdd(trace[k].v0, VMulSubDt(trace[k].a0))
                  /\ trace[k].vLimited = LimitVelocity(trace[k].vAdded)
                  /\ trace[k].pMoved = VAdd(trace[k].p0, Displacement(trace[k].vLimited))
                  /\ trace[k].box = handleBoundaryCollisions(
                         [p |-> trace[k].pMoved, v |-> trace[k].vLimited], params)
                  /\ \E perturbation \in PerturbationSet :
                         trace[k].grid = handleGridCollision(trace[k].box, params,
                                                             perturbation)
                  /\ [p |-> trace[k].p, v |-> trace[k].v]
                         = handleObstacleCollisions(trace[k].grid, obstacles, params)

\* the step that runs the callback of a mousedown
PlacementStep ==
    /\ inFrame
    /\ rafQueue # <<>>
    /\ Head(rafQueue).kind = "place"
    /\ rafQueue' = Tail(rafQueue)

\* C30: a mousedown with the tool 'add-obstacle' results in exactly one
\* obstacle and no source, one with the tool 'source' in exactly one source
\* and no obstacle, also when the tool is changed before the callback runs
PlacesWhatTheToolWas ==
    [][PlacementStep =>
          IF Head(rafQueue).tool = "add-obstacle"
          THEN /\ Len(obstacles') = Len(obstacles) + 1
               /\ sources' = sources
          ELSE /\ Len(sources') = Len(sources) + 1
               /\ obstacles' = obstacles]_vars

\* the same for the callbacks that find the tool of their mousedown
PlacesWhatTheToolIs ==
    [][(PlacementStep /\ Head(rafQueue).tool = currentTool) =>
          IF Head(rafQueue).tool = "add-obstacle"
          THEN /\ Len(obstacles') = Len(obstacles) + 1
               /\ sources' = sources
          ELSE /\ Len(sources') = Len(sources) + 1
               /\ obstacles' = obstacles]_vars

(***************************************************************************)
(* Properties of the fall onto the plane, under SpecFall.                  *)
(***************************************************************************)
\* C26: with 0 <= damping <= 1, at the end of every completed update()
\* the speed of every particle is at most maxVelocity
SpeedLimitedAfterUpdate ==
    (last.op = "update" /\ ~last.threw /\ trace # <<>>
         /\ 0 <= params.damping /\ params.damping <= 100)
        => \A i \in 1..Len(velocities) :
               Len2(velocities[i]) <= maxVelocity * maxVelocity

\* update() has just run its sub-steps, with the parameters of this state
UpdateRan == last.op = "update" /\ ~last.threw /\ trace # <<>>

\* C28: with no obstacle and maxVelocity * subDt < collisionThreshold, a
\* particle with y >= 0 at the start of a sub-step has y >= 0 at its end
StaysAbovePlane ==
    (UpdateRan /\ obstacles = <<>> /\ MaxStepLength < params.collisionThreshold)
        => \A k \in 1..Len(trace) : trace[k].p0[2] >= 0 => trace[k].p[2] >= 0

\* a sub-step has moved a particle from above the plane to below it, and
\* the plane collision has acted
MovedBelowPlane ==
    /\ UpdateRan
    /\ obstacles = <<>>
    /\ MaxStepLength < params.collisionThreshold
    /\ \E k \in 1..Len(trace) :
           /\ trace[k].p0[2] >= 0
           /\ trace[k].pMoved[2] < 0
           /\ trace[k].p[2] = 0

====
